---- MODULE Spec2Model ----
(***************************************************************************)
(* mlw: a file watcher that restarts a script when watched files change.   *)
(* The model follows src/src/main.rs (ScriptProcess, handle_change,        *)
(* should_ignore_path, main), src/src/watcher.rs (FileWatcher) and         *)
(* src/src/logger.rs (log, verbose_log).                                   *)
(*                                                                         *)
(* Option<T> is modelled as a sequence of length 0 (None) or 1 (Some(x)).  *)
(* Time is a discrete clock; Instant::now() reads it.                      *)
(***************************************************************************)
EXTENDS Integers, Sequences, FiniteSets, TLC

VARIABLES
    config,         \* the ConfigFile in use (restart's argument)
    pc,             \* position of the main thread
    child,          \* ScriptProcess.child : Option<Child> (index into procs)
    procs,          \* every process spawned so far, in spawn order
    call,           \* the restart/stop call in progress
    ret,            \* Option<Result>: what the last finished restart returned
    clock,          \* the monotonic clock
    chan,           \* items queued in the mpsc channel
    closed,         \* all senders of the channel are gone
    delivered,      \* number of items the watcher has sent so far
    last_event_time,\* Option<Instant>: the Mutex<Instant> of main
    wake,           \* end of the thread::sleep in progress
    exit,           \* Option<exit status> of the program
    out,            \* the log lines written by the latest step of the program
    burst,          \* Option: when the last accepted event had been delivered
    prev,           \* the operation of ScriptProcess that returned last
    guard           \* the MutexGuard of last_event_time is held (main line 244)

vars == << config, pc, child, procs, call, ret, clock, chan, closed, delivered,
           last_event_time, wake, exit, out, burst, prev, guard >>

(***************************************************************************)
(* Bounds of the model.                                                    *)
(***************************************************************************)
MaxTime == 4
MaxDelay == 1
MaxEvents == 2
MaxSpawns == 3
MaxPaths == 2

None == << >>
Some(x) == << x >>
IsSome(o) == o # << >>
Unwrap(o) == o[1]

(***************************************************************************)
(* logger.rs                                                               *)
(***************************************************************************)
Log(level, message) ==
    << [level |-> level, msg |-> message] >>

VerboseLog(level, message, verbose) ==
    IF verbose = Some(TRUE)
    THEN Log(level, message)
    ELSE IF level \in {"Info", "Error"} THEN Log(level, message) ELSE << >>

UnwrapOrFalse(verbose) ==
    IF IsSome(verbose) THEN Unwrap(verbose) ELSE FALSE

(***************************************************************************)
(* ScriptProcess::get_command_config                                       *)
(***************************************************************************)
Ok(v) == [ok |-> TRUE, val |-> v]
Err(e) == [ok |-> FALSE, err |-> e]

\* a variant that runs an unknown script type with the shell
GetCommandConfigFallback(script_type) ==
    CASE script_type = "node" -> Ok([command |-> "node", args |-> << >>])
      [] script_type = "go"   -> Ok([command |-> "go", args |-> << "run" >>])
      [] script_type = "rust" -> Ok([command |-> "cargo", args |-> << "run", "--" >>])
      [] OTHER                -> Ok([command |-> "sh", args |-> << >>])

GetCommandConfig(script_type) ==
    CASE script_type = "python"  -> Ok([command |-> "python3", args |-> << >>])
      [] script_type = "python2" -> Ok([command |-> "python2", args |-> << >>])
      [] script_type = "node"    -> Ok([command |-> "node", args |-> << >>])
      [] script_type = "lua"     -> Ok([command |-> "lua", args |-> << >>])
      [] script_type = "php"     -> Ok([command |-> "php", args |-> << >>])
      [] script_type = "go"      -> Ok([command |-> "go", args |-> << "run" >>])
      [] script_type = "rust"    -> Ok([command |-> "cargo", args |-> << "run", "--" >>])
      [] script_type = "sh"      -> Ok([command |-> "sh", args |-> << >>])
      [] OTHER                   -> Err("Unsupported script type")

\* a variant that puts the path before the default arguments
SpawnArgsPathFirst(default_args, path, script_args) ==
    << path >> \o default_args \o
        (IF IsSome(script_args) THEN Unwrap(script_args) ELSE << >>)

\* restart, lines 123-129: default args, the path, then the extra arguments
SpawnArgs(default_args, path, script_args) ==
    default_args \o << path >> \o
        (IF IsSome(script_args) THEN Unwrap(script_args) ELSE << >>)

(***************************************************************************)
(* should_ignore_path.  A pattern and a path are sequences of characters.  *)
(* RegexNew parses the subset of the regex syntax the patterns use: a      *)
(* literal character, "." (any character), "\c" (the character c), a       *)
(* postfix "*", and "[" which opens a class that must be closed by "]".    *)
(* An atom is [any, ch, star].                                             *)
(***************************************************************************)
Atom(any, ch, star) == [any |-> any, ch |-> ch, star |-> star]

RECURSIVE ParseFrom(_, _, _)
ParseFrom(pattern, i, atoms) ==
    IF i > Len(pattern) THEN Ok(atoms)
    ELSE LET c == pattern[i] IN
         CASE c = "*" ->
                IF atoms = << >> THEN Err("repetition operator missing expression")
                ELSE ParseFrom(pattern, i + 1,
                        [atoms EXCEPT ![Len(atoms)].star = TRUE])
           [] c = "\\" ->
                IF i = Len(pattern) THEN Err("incomplete escape sequence")
                ELSE ParseFrom(pattern, i + 2,
                        Append(atoms, Atom(FALSE, pattern[i + 1], FALSE)))
           [] c = "[" ->
                IF \E j \in (i + 2)..Len(pattern) : pattern[j] = "]"
                THEN Err("character classes are outside the modelled subset")
                ELSE Err("unclosed character class")
           [] c = "." -> ParseFrom(pattern, i + 1, Append(atoms, Atom(TRUE, ".", FALSE)))
           [] OTHER -> ParseFrom(pattern, i + 1, Append(atoms, Atom(FALSE, c, FALSE)))

RegexNew(pattern) == ParseFrom(pattern, 1, << >>)

AtomMatches(atom, c) == IF atom.any THEN c # "\n" ELSE atom.ch = c

RECURSIVE MatchAt(_, _, _, _)
MatchAt(atoms, i, text, j) ==
    IF i > Len(atoms) THEN TRUE
    ELSE IF atoms[i].star
         THEN \/ MatchAt(atoms, i + 1, text, j)
              \/ /\ j <= Len(text)
                 /\ AtomMatches(atoms[i], text[j])
                 /\ MatchAt(atoms, i, text, j + 1)
         ELSE /\ j <= Len(text)
              /\ AtomMatches(atoms[i], text[j])
              /\ MatchAt(atoms, i + 1, text, j + 1)

\* Regex::is_match: an unanchored search
IsMatch(atoms, text) ==
    \E start \in 1..(Len(text) + 1) : MatchAt(atoms, 1, text, start)

\* Path::to_string_lossy: a byte that is not UTF-8 becomes U+FFFD
ToStringLossy(path) ==
    [i \in DOMAIN path |-> IF path[i] = "0xFF" THEN "U+FFFD" ELSE path[i]]

\* a variant in which a pattern that does not compile ignores every path
ShouldIgnorePathBadPattern(path, ignore_pattern) ==
    IF ~IsSome(ignore_pattern) THEN FALSE
    ELSE LET regex == RegexNew(Unwrap(ignore_pattern)) IN
         IF ~regex.ok THEN TRUE
         ELSE IsMatch(regex.val, ToStringLossy(path))

ShouldIgnorePath(path, ignore_pattern) ==
    IF ~IsSome(ignore_pattern) THEN FALSE
    ELSE LET regex == RegexNew(Unwrap(ignore_pattern)) IN
         IF ~regex.ok THEN FALSE
         ELSE IsMatch(regex.val, ToStringLossy(path))

(***************************************************************************)
(* The inputs: configurations, watch events.                               *)
(***************************************************************************)
Pat_git == << ".", "*", "\\", ".", "g", "i", "t", ".", "*" >>   \* .*\.git.*
Pat_bad == << "[", "a" >>                                        \* does not compile
File_git == << "/", ".", "g", "i", "t", "/", "H" >>
File_src == << "/", "s", "r", "c", "/", "m" >>

ScriptTypes == { None, Some("node"), Some("go"), Some("rust"), Some("ruby") }
ScriptArgs == { None, Some(<< "--dev" >>) }
IgnorePatterns == { None, Some(Pat_git), Some(Pat_bad) }
WatchRoots == << "./src", "./lib", "./bin" >>

\* load_config rejects an empty path list; restart itself accepts one
PathLists(min) == { SubSeq(WatchRoots, 1, n) : n \in min..MaxPaths }

\* the configurations main is run with
MainConfigs ==
    [ path : PathLists(1), script_args : {None}, delay : 0..MaxDelay,
      verbose : {None, Some(TRUE)}, ignore_pattern : IgnorePatterns,
      script_type : {None, Some("node"), Some("ruby")} ]

\* the configurations restart is called with
RestartConfigs ==
    [ path : PathLists(0), script_args : ScriptArgs, delay : {0},
      verbose : {None, Some(TRUE)}, ignore_pattern : {None},
      script_type : ScriptTypes ]

Event(kind, paths) == [tag |-> "event", kind |-> kind, paths |-> paths]
WatchError == [tag |-> "error"]

Items ==
    { Event("modify", << File_src >>), Event("remove", << File_src >>),
      Event("create", << File_src, File_git >>), Event("access", << File_src >>),
      Event("modify", << File_git >>), Event("modify", << >>), WatchError }

(***************************************************************************)
(* ScriptProcess                                                           *)
(***************************************************************************)
NoCall == [op |-> "none", caller |-> "none", taken |-> 0, idx |-> 0, base |-> 0]
Call(op, caller) ==
    [op |-> op, caller |-> caller, taken |-> 0, idx |-> 0, base |-> Len(procs)]

\* where a finished stop continues
AfterStop == IF call.op = "stop" THEN "returned" ELSE "resolve"

\* a variant that reads the handle without taking it
StopTakeKeepsHandle ==
    /\ pc = "stop"
    /\ IF IsSome(child)
       THEN /\ call' = [call EXCEPT !.taken = Unwrap(child)]
            /\ pc' = "kill"
       ELSE /\ pc' = AfterStop
            /\ call' = call
    /\ out' = << >>
    /\ UNCHANGED << config, child, procs, ret, clock, chan, closed, delivered,
                    last_event_time, wake, exit, burst, prev, guard >>

\* stop, line 79: self.child.take()
StopTake ==
    /\ pc = "stop"
    /\ IF IsSome(child)
       THEN /\ call' = [call EXCEPT !.taken = Unwrap(child)]
            /\ child' = None
            /\ pc' = "kill"
       ELSE /\ pc' = AfterStop
            /\ UNCHANGED << call, child >>
    /\ out' = << >>
    /\ UNCHANGED << config, procs, ret, clock, chan, closed, delivered,
                    last_event_time, wake, exit, burst, prev, guard >>

\* a variant of stop that does not wait for the killed child
KillWithoutWait ==
    /\ pc = "kill"
    /\ \E ok \in BOOLEAN :
          procs' = IF ok THEN [procs EXCEPT ![call.taken].st = "killed"] ELSE procs
    /\ pc' = AfterStop
    /\ out' = << >>
    /\ UNCHANGED << config, child, call, ret, clock, chan, closed, delivered,
                    last_event_time, wake, exit, burst, prev, guard >>

\* stop, line 80: let _ = child.kill().  A kill that succeeds ends the process;
\* one that fails leaves it as it was.  The result is dropped.
Kill ==
    /\ pc = "kill"
    /\ \E ok \in BOOLEAN :
          procs' = IF ok THEN [procs EXCEPT ![call.taken].st = "killed"] ELSE procs
    /\ pc' = "wait"
    /\ out' = << >>
    /\ UNCHANGED << config, child, call, ret, clock, chan, closed, delivered,
                    last_event_time, wake, exit, burst, prev, guard >>

\* a variant of stop whose wait gives up on a child that has not ended
WaitTimesOut ==
    /\ pc = "wait"
    /\ \E ended \in BOOLEAN :
          procs' = IF ended THEN [procs EXCEPT ![call.taken].st = "reaped"] ELSE procs
    /\ pc' = AfterStop
    /\ out' = << >>
    /\ UNCHANGED << config, child, call, ret, clock, chan, closed, delivered,
                    last_event_time, wake, exit, burst, prev, guard >>

\* stop, line 81: let _ = child.wait().  The step is the return of wait: the
\* process has ended, killed or by itself, and is reaped.  A process that does
\* not end keeps the thread here.  The result, Ok or Err, is dropped.
Wait ==
    /\ pc = "wait"
    /\ procs' = [procs EXCEPT ![call.taken].st = "reaped"]
    /\ pc' = AfterStop
    /\ out' = << >>
    /\ UNCHANGED << config, child, call, ret, clock, chan, closed, delivered,
                    last_event_time, wake, exit, burst, prev, guard >>

\* restart, lines 108-119: the script type and its command
Resolve ==
    /\ pc = "resolve"
    /\ LET cc == IF IsSome(config.script_type)
                 THEN GetCommandConfig(Unwrap(config.script_type))
                 ELSE Err("Missing script type in config")
       IN IF ~cc.ok
          THEN /\ ret' = Some(cc)
               /\ pc' = "returned"
               /\ out' = << >>
               /\ call' = call
          ELSE /\ out' = VerboseLog("Info", "Restarting script using", config.verbose)
               /\ IF config.path = << >>
                  THEN ret' = Some(Ok("unit")) /\ pc' = "returned" /\ call' = call
                  ELSE ret' = None /\ pc' = "spawn" /\ call' = [call EXCEPT !.idx = 1]
    /\ UNCHANGED << config, child, procs, clock, chan, closed, delivered,
                    last_event_time, wake, exit, burst, prev, guard >>

\* restart, lines 121-145: one iteration of the loop over config.path
Spawn ==
    /\ pc = "spawn"
    /\ Len(procs) < MaxSpawns
    /\ LET cc == GetCommandConfig(Unwrap(config.script_type)).val
           args == SpawnArgs(cc.args, config.path[call.idx], config.script_args)
       IN \E ok \in BOOLEAN :
            IF ok
            THEN /\ procs' = Append(procs, [st |-> "running", command |-> cc.command,
                                            args |-> args])
                 /\ child' = Some(Len(procs) + 1)
                 /\ IF call.idx = Len(config.path)
                    THEN ret' = Some(Ok("unit")) /\ pc' = "returned" /\ call' = call
                    ELSE ret' = None /\ pc' = "spawn"
                         /\ call' = [call EXCEPT !.idx = call.idx + 1]
            ELSE /\ ret' = Some(Err("Failed to start script"))
                 /\ pc' = "returned"
                 /\ UNCHANGED << procs, child, call >>
    /\ out' = VerboseLog("Debug", "Running command", config.verbose)
    /\ UNCHANGED << config, clock, chan, closed, delivered, last_event_time,
                    wake, exit, burst, prev, guard >>

(***************************************************************************)
(* main                                                                    *)
(***************************************************************************)
\* -1: FileWatcher::new fails; i > 0: the watch of path i fails; 0: neither
StartupOutcomes == -1..Len(config.path)

\* main, lines 206-218: the configuration is loaded, the watcher is created and
\* every path is registered (watcher.rs, FileWatcher::new and FileWatcher::watch);
\* a failure is returned from main
Startup ==
    /\ pc = "start"
    /\ \E outcome \in StartupOutcomes :
          IF outcome = 0
          THEN /\ pc' = "stop"
               /\ call' = Call("restart", "init")
               /\ exit' = exit
          ELSE /\ pc' = "exit"
               /\ call' = call
               /\ exit' = Some(1)
    /\ out' = IF UnwrapOrFalse(config.verbose)
              THEN Log("Info", "Configuration loaded.") ELSE << >>
    /\ UNCHANGED << config, child, procs, ret, clock, chan, closed, delivered,
                    last_event_time, wake, burst, prev, guard >>

\* Instant::duration_since saturates at zero
DurationSince(now, earlier) == IF now >= earlier THEN now - earlier ELSE 0

\* a variant that accepts an event on the boundary
DebounceAcceptsOnBoundary(now, last, delay) == DurationSince(now, last) >= delay

\* main, line 246
DebounceAccepts(now, last, delay) == DurationSince(now, last) > delay

\* a variant in which every kind of event triggers
KindTriggersAny(kind) == kind = kind

KindTriggers(kind) == kind \in {"modify", "create", "remove"}

\* a variant in which a failed restart ends the loop
ReturnedErrorEndsLoop ==
    /\ pc = "returned"
    /\ call.caller \in {"init", "loop"}
    /\ LET r == Unwrap(ret) IN
       IF call.caller = "init"
       THEN IF r.ok
            THEN /\ out' = IF UnwrapOrFalse(config.verbose)
                           THEN [i \in 1..Len(config.path) |->
                                    [level |-> "Info", msg |-> "Watching path"]]
                           ELSE << >>
                 /\ last_event_time' = Some(clock)
                 /\ pc' = "recv"
                 /\ exit' = exit
            ELSE /\ out' = << >>
                 /\ last_event_time' = last_event_time
                 /\ pc' = "exit"
                 /\ exit' = Some(1)
       ELSE IF r.ok
            THEN /\ out' = VerboseLog("Info", "script restarted successfully.",
                                      config.verbose)
                 /\ pc' = "recv"
                 /\ UNCHANGED << last_event_time, exit >>
            ELSE /\ out' = Log("Error", "Error handling change")
                 /\ pc' = "exit"
                 /\ exit' = Some(1)
                 /\ last_event_time' = last_event_time
    /\ call' = NoCall
    /\ ret' = None
    /\ prev' = call.op
    /\ guard' = FALSE
    /\ UNCHANGED << config, child, procs, clock, chan, closed, delivered,
                    wake, burst >>

\* a variant in which the loop starts although the initial launch failed
ReturnedInitErrorEntersLoop ==
    /\ pc = "returned"
    /\ call.caller \in {"init", "loop"}
    /\ LET r == Unwrap(ret) IN
       IF call.caller = "init"
       THEN /\ out' = IF UnwrapOrFalse(config.verbose)
                      THEN [i \in 1..Len(config.path) |->
                               [level |-> "Info", msg |-> "Watching path"]]
                      ELSE << >>
            /\ last_event_time' = Some(clock)
            /\ pc' = "recv"
            /\ exit' = exit
       ELSE /\ out' = IF r.ok
                      THEN VerboseLog("Info", "script restarted successfully.",
                                      config.verbose)
                      ELSE Log("Error", "Error handling change")
            /\ pc' = "recv"
            /\ UNCHANGED << last_event_time, exit >>
    /\ call' = NoCall
    /\ ret' = None
    /\ prev' = call.op
    /\ guard' = FALSE
    /\ UNCHANGED << config, child, procs, clock, chan, closed, delivered,
                    wake, burst >>

\* a variant that starts the loop with a lastTriggerTime older than the delay
ReturnedLoopStartInPast ==
    /\ pc = "returned"
    /\ call.caller \in {"init", "loop"}
    /\ LET r == Unwrap(ret) IN
       IF call.caller = "init"
       THEN IF r.ok
            THEN /\ out' = IF UnwrapOrFalse(config.verbose)
                           THEN [i \in 1..Len(config.path) |->
                                    [level |-> "Info", msg |-> "Watching path"]]
                           ELSE << >>
                 /\ last_event_time' = Some(clock - config.delay - 1)
                 /\ pc' = "recv"
                 /\ exit' = exit
            ELSE /\ out' = << >>
                 /\ last_event_time' = last_event_time
                 /\ pc' = "exit"
                 /\ exit' = Some(1)
       ELSE /\ out' = IF r.ok
                      THEN VerboseLog("Info", "script restarted successfully.",
                                      config.verbose)
                      ELSE Log("Error", "Error handling change")
            /\ pc' = "recv"
            /\ UNCHANGED << last_event_time, exit >>
    /\ call' = NoCall
    /\ ret' = None
    /\ prev' = call.op
    /\ guard' = FALSE
    /\ UNCHANGED << config, child, procs, clock, chan, closed, delivered,
                    wake, burst >>

\* the return of restart to its caller: main line 219 (the initial launch, then
\* lines 221-227), or handle_change lines 169-175 and main lines 250-252
Returned ==
    /\ pc = "returned"
    /\ call.caller \in {"init", "loop"}
    /\ LET r == Unwrap(ret) IN
       IF call.caller = "init"
       THEN IF r.ok
            THEN /\ out' = IF UnwrapOrFalse(config.verbose)
                           THEN [i \in 1..Len(config.path) |->
                                    [level |-> "Info", msg |-> "Watching path"]]
                           ELSE << >>
                 /\ last_event_time' = Some(clock)
                 /\ pc' = "recv"
                 /\ exit' = exit
            ELSE /\ out' = << >>
                 /\ last_event_time' = last_event_time
                 /\ pc' = "exit"
                 /\ exit' = Some(1)
       ELSE /\ out' = IF r.ok
                      THEN VerboseLog("Info", "script restarted successfully.",
                                      config.verbose)
                      ELSE Log("Error", "Error handling change")
            /\ pc' = "recv"
            /\ UNCHANGED << last_event_time, exit >>
    /\ call' = NoCall
    /\ ret' = None
    /\ prev' = call.op
    /\ guard' = FALSE
    /\ UNCHANGED << config, child, procs, clock, chan, closed, delivered,
                    wake, burst >>

\* a variant that releases the lock before handle_change is called
RecvEventUnlocked ==
    /\ pc = "recv"
    /\ chan # << >>
    /\ Head(chan).tag = "event"
    /\ chan' = Tail(chan)
    /\ LET event == Head(chan)
           now == clock
           last == Unwrap(last_event_time)
       IN IF event.paths = << >>
          THEN /\ out' = << >>
               /\ UNCHANGED << pc, last_event_time, wake, burst, guard >>
          ELSE IF ShouldIgnorePath(event.paths[1], config.ignore_pattern)
          THEN /\ out' = IF UnwrapOrFalse(config.verbose)
                         THEN Log("Debug", "Ignored file") ELSE << >>
               /\ UNCHANGED << pc, last_event_time, wake, burst, guard >>
          ELSE IF ~KindTriggers(event.kind)
          THEN /\ out' = << >>
               /\ UNCHANGED << pc, last_event_time, wake, burst, guard >>
          ELSE IF DebounceAccepts(now, last, config.delay)
          THEN \* line 244: lock() returns when no guard is held; the guard
               \* is dropped before handle_change, lines 163-168
               /\ ~guard
               /\ last_event_time' = Some(now)
               /\ out' = VerboseLog("Info", "File change detected. Restarting...",
                                    config.verbose)
               /\ wake' = clock + config.delay
               /\ pc' = "sleep"
               /\ burst' = Some(event.at)
               /\ guard' = FALSE
          ELSE /\ ~guard
               /\ out' = IF UnwrapOrFalse(config.verbose)
                         THEN Log("Debug", "Ignoring event due to debounce") ELSE << >>
               /\ UNCHANGED << pc, last_event_time, wake, burst, guard >>
    /\ UNCHANGED << config, child, procs, call, ret, clock, closed, delivered,
                    exit, prev >>

\* main, lines 229-258: an event is received
RecvEvent ==
    /\ pc = "recv"
    /\ chan # << >>
    /\ Head(chan).tag = "event"
    /\ chan' = Tail(chan)
    /\ LET event == Head(chan)
           now == clock
           last == Unwrap(last_event_time)
       IN IF event.paths = << >>
          THEN /\ out' = << >>
               /\ UNCHANGED << pc, last_event_time, wake, burst, guard >>
          ELSE IF ShouldIgnorePath(event.paths[1], config.ignore_pattern)
          THEN /\ out' = IF UnwrapOrFalse(config.verbose)
                         THEN Log("Debug", "Ignored file") ELSE << >>
               /\ UNCHANGED << pc, last_event_time, wake, burst, guard >>
          ELSE IF ~KindTriggers(event.kind)
          THEN /\ out' = << >>
               /\ UNCHANGED << pc, last_event_time, wake, burst, guard >>
          ELSE IF DebounceAccepts(now, last, config.delay)
          THEN \* line 244: lock() returns when no guard is held; the guard
               \* lives to the end of the block, line 256, through
               \* handle_change, lines 163-168
               /\ ~guard
               /\ last_event_time' = Some(now)
               /\ out' = VerboseLog("Info", "File change detected. Restarting...",
                                    config.verbose)
               /\ wake' = clock + config.delay
               /\ pc' = "sleep"
               /\ burst' = Some(event.at)
               /\ guard' = TRUE
          ELSE /\ ~guard
               /\ out' = IF UnwrapOrFalse(config.verbose)
                         THEN Log("Debug", "Ignoring event due to debounce") ELSE << >>
               /\ UNCHANGED << pc, last_event_time, wake, burst, guard >>
    /\ UNCHANGED << config, child, procs, call, ret, clock, closed, delivered,
                    exit, prev >>

\* a variant in which a watch error ends the loop
RecvWatchErrorFatal ==
    /\ pc = "recv"
    /\ chan # << >>
    /\ Head(chan).tag = "error"
    /\ chan' = Tail(chan)
    /\ out' = VerboseLog("Error", "Change handling error", config.verbose)
    /\ pc' = "exit"
    /\ exit' = Some(0)
    /\ UNCHANGED << config, child, procs, call, ret, clock, closed, delivered,
                    last_event_time, wake, burst, prev, guard >>

\* main, lines 259-265: the watcher reports an error
RecvWatchError ==
    /\ pc = "recv"
    /\ chan # << >>
    /\ Head(chan).tag = "error"
    /\ chan' = Tail(chan)
    /\ out' = VerboseLog("Error", "Change handling error", config.verbose)
    /\ UNCHANGED << config, pc, child, procs, call, ret, clock, closed, delivered,
                    last_event_time, wake, exit, burst, prev, guard >>

\* a variant that stops the child when the channel is closed
RecvDisconnectedStops ==
    /\ pc = "recv"
    /\ chan = << >>
    /\ closed
    /\ out' = VerboseLog("Error", "Failed to receive file event", config.verbose)
    /\ pc' = "exit"
    /\ exit' = Some(0)
    /\ child' = None
    /\ procs' = IF IsSome(child)
                THEN [procs EXCEPT ![Unwrap(child)].st = "reaped"] ELSE procs
    /\ UNCHANGED << config, call, ret, clock, chan, closed, delivered,
                    last_event_time, wake, burst, prev, guard >>

\* main, lines 266-277: recv fails once the channel is empty and disconnected;
\* the loop breaks and main returns Ok(())
RecvDisconnected ==
    /\ pc = "recv"
    /\ chan = << >>
    /\ closed
    /\ out' = VerboseLog("Error", "Failed to receive file event", config.verbose)
    /\ pc' = "exit"
    /\ exit' = Some(0)
    /\ UNCHANGED << config, child, procs, call, ret, clock, chan, closed, delivered,
                    last_event_time, wake, burst, prev, guard >>

\* a variant in which the sleep may end before the delay has passed
WakeUpEarly ==
    /\ pc = "sleep"
    /\ pc' = "stop"
    /\ call' = Call("restart", "loop")
    /\ wake' = 0
    /\ out' = << >>
    /\ UNCHANGED << config, child, procs, ret, clock, chan, closed, delivered,
                    last_event_time, exit, burst, prev, guard >>

\* handle_change, lines 168-169: the sleep ends and restart is called
WakeUp ==
    /\ pc = "sleep"
    /\ clock >= wake
    /\ pc' = "stop"
    /\ call' = Call("restart", "loop")
    /\ wake' = 0
    /\ out' = << >>
    /\ UNCHANGED << config, child, procs, ret, clock, chan, closed, delivered,
                    last_event_time, exit, burst, prev, guard >>

(***************************************************************************)
(* The environment: time, the watcher's thread, the child processes.       *)
(***************************************************************************)
Running == pc \notin {"start", "exit"}

Tick ==
    /\ Running
    /\ clock < MaxTime
    /\ clock' = clock + 1
    /\ out' = << >>
    /\ UNCHANGED << config, pc, child, procs, call, ret, chan, closed, delivered,
                    last_event_time, wake, exit, burst, prev, guard >>

\* the watcher sends an item (watcher.rs line 20: the Sender is handed to notify)
Deliver ==
    /\ Running
    /\ ~closed
    /\ delivered < MaxEvents
    /\ \E item \in Items :
          chan' = Append(chan, item @@ [at |-> clock])
    /\ delivered' = delivered + 1
    /\ out' = << >>
    /\ UNCHANGED << config, pc, child, procs, call, ret, clock, closed,
                    last_event_time, wake, exit, burst, prev, guard >>

\* the watcher's thread ends and drops the Sender.  Only a recv on an empty
\* channel observes it, so the step is taken there.
Disconnect ==
    /\ pc = "recv"
    /\ chan = << >>
    /\ ~closed
    /\ closed' = TRUE
    /\ out' = << >>
    /\ UNCHANGED << config, pc, child, procs, call, ret, clock, chan, delivered,
                    last_event_time, wake, exit, burst, prev, guard >>

(***************************************************************************)
(* ScriptProcess on its own: any sequence of restart(config) and stop().   *)
(***************************************************************************)
\* between two calls no configuration is in use
NoConfig ==
    [ path |-> << >>, script_args |-> None, delay |-> 0, verbose |-> None,
      ignore_pattern |-> None, script_type |-> None ]

ApiRestart ==
    /\ pc = "idle"
    /\ \E cfg \in RestartConfigs : config' = cfg
    /\ pc' = "stop"
    /\ call' = Call("restart", "api")
    /\ out' = << >>
    /\ UNCHANGED << child, procs, ret, clock, chan, closed, delivered,
                    last_event_time, wake, exit, burst, prev, guard >>

ApiStop ==
    /\ pc = "idle"
    /\ pc' = "stop"
    /\ call' = Call("stop", "api")
    /\ out' = << >>
    /\ UNCHANGED << config, child, procs, ret, clock, chan, closed, delivered,
                    last_event_time, wake, exit, burst, prev, guard >>

ApiReturn ==
    /\ pc = "returned"
    /\ call.caller = "api"
    /\ pc' = "idle"
    /\ call' = NoCall
    /\ ret' = None
    /\ prev' = call.op
    /\ config' = NoConfig
    /\ out' = << >>
    /\ UNCHANGED << child, procs, clock, chan, closed, delivered,
                    last_event_time, wake, exit, burst, guard >>

Init ==
    /\ config \in MainConfigs
    /\ pc = "start"
    /\ child = None
    /\ procs = << >>
    /\ call = NoCall
    /\ ret = None
    /\ clock = 0
    /\ chan = << >>
    /\ closed = FALSE
    /\ delivered = 0
    /\ last_event_time = None
    /\ wake = 0
    /\ exit = None
    /\ out = << >>
    /\ burst = None
    /\ prev = "none"
    /\ guard = FALSE

Next ==
    \/ Startup
    \/ StopTake
    \/ Kill
    \/ Wait
    \/ Resolve
    \/ Spawn
    \/ Returned
    \/ RecvEvent
    \/ RecvWatchError
    \/ RecvDisconnected
    \/ WakeUp
    \/ Tick
    \/ Deliver
    \/ Disconnect

Spec == Init /\ [][Next]_vars

\* the steps of the main thread that are not a call of a collaborator
MainStep ==
    \/ Startup
    \/ StopTake
    \/ Resolve
    \/ Returned
    \/ RecvEvent
    \/ RecvWatchError
    \/ RecvDisconnected
    \/ WakeUp

\* the configurations that let the loop start, taken without verbosity and
\* without an ignore pattern
FairConfigs ==
    { c \in MainConfigs : /\ c.script_type = Some("node")
                          /\ c.verbose = None
                          /\ c.ignore_pattern = None }

FairInit ==
    /\ config \in FairConfigs
    /\ pc = "start"
    /\ child = None
    /\ procs = << >>
    /\ call = NoCall
    /\ ret = None
    /\ clock = 0
    /\ chan = << >>
    /\ closed = FALSE
    /\ delivered = 0
    /\ last_event_time = None
    /\ wake = 0
    /\ exit = None
    /\ out = << >>
    /\ burst = None
    /\ prev = "none"
    /\ guard = FALSE

\* The main thread is scheduled and time passes; every kill, wait and spawn
\* returns.
FairSpec ==
    /\ FairInit /\ [][Next]_vars
    /\ WF_vars(MainStep)
    /\ WF_vars(Tick)
    /\ WF_vars(Kill)
    /\ WF_vars(Wait)
    /\ WF_vars(Spawn)

SupInit ==
    /\ config = NoConfig
    /\ pc = "idle"
    /\ child = None
    /\ procs = << >>
    /\ call = NoCall
    /\ ret = None
    /\ clock = 0
    /\ chan = << >>
    /\ closed = FALSE
    /\ delivered = 0
    /\ last_event_time = None
    /\ wake = 0
    /\ exit = None
    /\ out = << >>
    /\ burst = None
    /\ prev = "none"
    /\ guard = FALSE

SupNext ==
    \/ ApiRestart
    \/ ApiStop
    \/ ApiReturn
    \/ StopTake
    \/ Kill
    \/ Wait
    \/ Resolve
    \/ Spawn

SupSpec == SupInit /\ [][SupNext]_vars

(***************************************************************************)
(* The claims.                                                             *)
(***************************************************************************)
Live == { p \in DOMAIN procs : procs[p].st # "reaped" }

\* C1: at most one spawned child process exists that has not been killed and
\* reaped, for every configuration, one with several watch paths included.
C1_AtMostOneLiveChild == Cardinality(Live) <= 1

\* C2: events delivered within a window shorter than the delay cause at most one
\* restart: an event is never accepted when it was delivered less than the delay
\* after the previously accepted event was delivered.
C2_BurstCollapse ==
    [][ (pc = "recv" /\ pc' = "sleep" /\ IsSome(burst))
            => Unwrap(burst') - Unwrap(burst) >= config.delay ]_vars

\* a create/modify/remove event with a path that the filter lets through is at
\* the head of the channel and this step receives it
ChecksDebounce ==
    /\ pc = "recv"
    /\ chan # << >>
    /\ chan' = Tail(chan)
    /\ Head(chan).tag = "event"
    /\ Head(chan).kind \in {"create", "modify", "remove"}
    /\ Head(chan).paths # << >>
    /\ ~ShouldIgnorePath(Head(chan).paths[1], config.ignore_pattern)

\* C3: an event that reaches the debounce check triggers a restart if and only
\* if the time of the check minus lastTriggerTime is strictly greater than the
\* delay; in particular a check at lastTriggerTime + delay is rejected.
C3_DebounceBoundary ==
    [][ ChecksDebounce =>
          /\ (pc' = "sleep") <=> (clock - Unwrap(last_event_time) > config.delay)
          /\ (pc' # "sleep") <=> (pc' = "recv" /\ last_event_time' = last_event_time)
          /\ (pc' = "sleep") => last_event_time' = Some(clock) ]_vars

\* an event has just been rejected exactly on the boundary lastTriggerTime + delay
C3_Witness ==
    /\ pc = "recv"
    /\ out = Log("Debug", "Ignoring event due to debounce")
    /\ config.delay > 0
    /\ clock = Unwrap(last_event_time) + config.delay

\* stop has just returned
StopDone == pc = "resolve" \/ (pc = "returned" /\ call.op = "stop")

\* C4: stop leaves the supervisor Stopped with the child it held killed and
\* reaped, whatever kill and wait returned; on a Stopped supervisor stop changes
\* nothing, signals no process and reports no error.
C4_StopIdempotent ==
    /\ [](StopDone => /\ child = None
                      /\ call.taken # 0 => procs[call.taken].st = "reaped")
    /\ [][ (pc = "stop" /\ child = None) =>
              /\ pc' = (IF call.op = "stop" THEN "returned" ELSE "resolve")
              /\ UNCHANGED << child, procs, ret, call >> ]_vars

\* the second of two stops in a row has returned; the first one reaped a child
C4_Witness ==
    /\ pc = "returned"
    /\ call.op = "stop"
    /\ call.taken = 0
    /\ prev = "stop"
    /\ \E p \in DOMAIN procs : procs[p].st = "reaped"

\* C5: whenever restart returns an error because a spawn failed, no child handle
\* is stored, whichever path's spawn failed.
C5_FailedSpawnLeavesStopped ==
    (pc = "returned" /\ IsSome(ret) /\ ~Unwrap(ret).ok
        /\ Unwrap(ret).err = "Failed to start script") => child = None

Recognised == {"python", "python2", "node", "lua", "php", "go", "rust", "sh"}

UnknownScriptType ==
    config.script_type = None \/ Unwrap(config.script_type) \notin Recognised

\* C6: with a script type that is missing or not recognised, restart returns an
\* error, has spawned no process and leaves the supervisor Stopped.
C6_UnknownScriptType ==
    (pc = "returned" /\ call.op = "restart" /\ UnknownScriptType) =>
        /\ IsSome(ret)
        /\ ~Unwrap(ret).ok
        /\ Len(procs) = call.base
        /\ child = None

\* restart has failed on the type "ruby" after stopping a running child
C6_Witness ==
    /\ pc = "returned"
    /\ call.op = "restart"
    /\ config.script_type = Some("ruby")
    /\ call.taken # 0
    /\ procs[call.taken].st = "reaped"

\* C7: every spawn of restart is given the default arguments of the script type,
\* then the watched path, then the extra arguments; node with ./src and --dev
\* gives [./src, --dev], go gives [run, ./src, --dev].
C7_SpawnArguments ==
    [][ Len(procs') = Len(procs) + 1 =>
          LET spawned == procs'[Len(procs')]
              type == Unwrap(config.script_type)
              path == config.path[call.idx]
              extra == IF config.script_args = None THEN << >>
                       ELSE Unwrap(config.script_args)
          IN /\ spawned.args = GetCommandConfig(type).val.args \o << path >> \o extra
             /\ (type = "node" /\ path = "./src" /\ extra = << "--dev" >>)
                    => spawned.args = << "./src", "--dev" >>
             /\ (type = "go" /\ path = "./src" /\ extra = << "--dev" >>)
                    => spawned.args = << "run", "./src", "--dev" >> ]_vars

\* go has been spawned for ./src with the extra argument --dev
C7_Witness ==
    \E p \in DOMAIN procs :
        procs[p] = [st |-> "running", command |-> "go",
                    args |-> << "run", "./src", "--dev" >>]

\* this step receives an event that carries a path
ReceivesPath ==
    /\ pc = "recv"
    /\ chan # << >>
    /\ chan' = Tail(chan)
    /\ Head(chan).tag = "event"
    /\ Head(chan).paths # << >>

\* C8: an event is ignored exactly when a pattern is configured, compiles and
\* matches the event's first path (.*\.git.* matches /.git/H and not /src/m; the
\* pattern that does not compile and the missing pattern ignore nothing); the
\* loop does not fail, and an ignored event causes no restart whatever its kind.
C8_PathFilter ==
    [][ ReceivesPath =>
          LET event == Head(chan)
              ignored == /\ config.ignore_pattern = Some(Pat_git)
                         /\ event.paths[1] = File_git
          IN /\ pc' \in {"recv", "sleep"}
             /\ ignored =>
                  /\ pc' = "recv"
                  /\ UNCHANGED << last_event_time, child, procs >>
                  /\ out' = IF config.verbose = Some(TRUE)
                            THEN Log("Debug", "Ignored file") ELSE << >>
             /\ ~ignored =>
                  /\ out' # Log("Debug", "Ignored file")
                  /\ (/\ event.kind \in {"create", "modify", "remove"}
                      /\ clock - Unwrap(last_event_time) > config.delay)
                        => pc' = "sleep" ]_vars

\* an event has just been ignored
C8_Witness ==
    /\ pc = "recv"
    /\ out = Log("Debug", "Ignored file")
    /\ config.ignore_pattern = Some(Pat_git)

\* C9: when the channel is closed the loop terminates and the program ends with
\* a failure exit status.
C9_DisconnectExitsNonZero ==
    (pc = "exit" /\ IsSome(last_event_time)) => exit # Some(0)

\* C10: a watch error is logged and the loop goes on to the next item; no
\* restart starts and the child handle and lastTriggerTime are unchanged.
C10_WatchErrorContinues ==
    [][ (pc = "recv" /\ chan # << >> /\ chan' = Tail(chan)
            /\ Head(chan).tag = "error") =>
          /\ pc' = "recv"
          /\ out' = Log("Error", "Change handling error")
          /\ UNCHANGED << child, procs, call, last_event_time >> ]_vars

\* a watch error has just been logged by a program that is not verbose
C10_Witness ==
    /\ pc = "recv"
    /\ out = Log("Error", "Change handling error")
    /\ config.verbose = None

\* this step returns an error of handle_change to the loop
HandleChangeFails ==
    pc = "returned" /\ pc' # pc /\ call.caller = "loop" /\ ~Unwrap(ret).ok

\* C11: when handle_change returns an error, an Error line is logged whatever
\* the verbosity, the program does not end and the loop receives again; the
\* error leaves nothing behind that keeps a later event from being accepted by
\* the debounce check and from starting a restart.
C11_RestartFailureNonFatal ==
    /\ [][ HandleChangeFails =>
             /\ out' = Log("Error", "Error handling change")
             /\ pc' = "recv"
             /\ exit' = None
             /\ UNCHANGED << last_event_time, child, procs, chan >> ]_vars
    /\ [][ (ChecksDebounce /\ IsSome(burst)
              /\ clock - Unwrap(last_event_time) > config.delay)
             => pc' = "sleep" ]_vars
    /\ [][ (pc = "sleep" /\ pc' # "sleep")
             => (pc' = "stop" /\ call' = Call("restart", "loop")) ]_vars

\* after a restart of the loop failed (its spawn failed, so no handle is stored
\* by a program with one path), a later event has been accepted and its restart
\* has been called, on a program that is not verbose
C11_Witness ==
    /\ pc = "stop"
    /\ call.caller = "loop"
    /\ Len(config.path) = 1
    /\ child = None
    /\ config.verbose = None

\* the number of channel items the loop has taken
Consumed == delivered - Len(chan)

\* the loop has been entered
LoopEntered == IsSome(last_event_time)

\* C12: startup ends either with the initial launch being called or with an
\* error; the initial launch ends with an error when the script type is unknown
\* and whenever restart returns one (a spawn failed); after an error the program
\* has ended, the loop is never entered and no channel item is ever consumed.
C12_StartupAborts ==
    /\ [][ pc = "start" =>
             \/ pc' = "stop" /\ call' = Call("restart", "init") /\ exit' = None
             \/ pc' = "exit" /\ exit' = Some(1) ]_vars
    /\ [][ (pc = "returned" /\ pc' # pc /\ call.caller = "init"
              /\ (UnknownScriptType \/ ~Unwrap(ret).ok))
             => (pc' = "exit" /\ exit' = Some(1) /\ last_event_time' = None) ]_vars
    /\ []( (pc = "returned" /\ call.caller = "init" /\ UnknownScriptType)
             => ~Unwrap(ret).ok )
    /\ []( ~LoopEntered => (Consumed = 0 /\ pc # "recv") )
    /\ []( exit = Some(1) => (pc = "exit" /\ ~LoopEntered) )
    /\ [][ pc = "exit" => FALSE ]_vars

\* the initial launch failed at the spawn for the second path, after the spawn
\* for the first, and the program has ended with an item left on the channel
C12_Witness ==
    /\ pc = "exit"
    /\ exit = Some(1)
    /\ Len(procs) = 1
    /\ chan # << >>

\* C13: an accepted trigger logs the change and sleeps; through the sleep, which
\* lasts at least the delay, the held child is left running; then restart takes
\* the handle, kills, waits, and only a restart whose wait has reaped the child
\* it took spawns: no process is spawned at kill or wait, nor while a taken
\* child is not reaped.
C13_TriggerOrdering ==
    /\ [][ (pc = "recv" /\ pc' = "sleep") =>
             /\ out' = VerboseLog("Info", "File change detected. Restarting...",
                                  config.verbose)
             /\ wake' = clock + config.delay
             /\ UNCHANGED << child, procs >> ]_vars
    /\ [][ pc = "sleep" =>
             /\ UNCHANGED << child, procs >>
             /\ pc' # pc => /\ pc' = "stop"
                            /\ clock >= Unwrap(last_event_time) + config.delay ]_vars
    /\ []( (pc = "sleep" /\ IsSome(child)) => procs[Unwrap(child)].st = "running" )
    /\ [][ (pc = "stop" /\ pc' # pc /\ IsSome(child)) =>
             /\ pc' = "kill"
             /\ call'.taken = Unwrap(child)
             /\ procs' = procs ]_vars
    /\ [][ (pc = "kill" /\ pc' # pc) =>
             /\ pc' = "wait"
             /\ Len(procs') = Len(procs) ]_vars
    /\ [][ (pc = "wait" /\ pc' # pc) =>
             /\ pc' = "resolve"
             /\ procs'[call.taken].st = "reaped"
             /\ Len(procs') = Len(procs) ]_vars
    /\ [][ Len(procs') > Len(procs) =>
             /\ pc = "spawn"
             /\ call.taken # 0 => procs[call.taken].st = "reaped" ]_vars

\* a restart of the loop has returned after a sleep of a positive delay; it
\* reaped the child it took and then spawned
C13_Witness ==
    /\ pc = "returned"
    /\ call.caller = "loop"
    /\ config.delay > 0
    /\ call.taken # 0
    /\ procs[call.taken].st = "reaped"
    /\ Len(procs) > call.base

\* a restart of the loop is in flight: from the acceptance of a trigger to the
\* return of handle_change
RestartInFlight == pc = "sleep" \/ call.caller = "loop"

\* C14: a step that replaces lastTriggerTime takes the lock, compares the time
\* of the check with the value it replaces and stores the time of the check, and
\* still holds the lock afterwards; the stored value is later than the replaced
\* one, so no two accepted events read the same value.  The lock is held exactly
\* while a restart is in flight, and while it is held no item is taken from the
\* channel, lastTriggerTime is not written and no further trigger is accepted:
\* at most one restart is in flight.
C14_CriticalSection ==
    /\ [][ (LoopEntered /\ last_event_time' # last_event_time) =>
             /\ ~guard
             /\ guard'
             /\ clock - Unwrap(last_event_time) > config.delay
             /\ last_event_time' = Some(clock)
             /\ Unwrap(last_event_time') > Unwrap(last_event_time) ]_vars
    /\ []( guard <=> RestartInFlight )
    /\ [][ guard =>
             /\ Len(chan') >= Len(chan)
             /\ last_event_time' = last_event_time
             /\ burst' = burst
             /\ ~(pc # "sleep" /\ pc' = "sleep") ]_vars

\* the lock is held by a restart that waits for the old child while a further
\* item is queued on the channel
C14_Witness ==
    /\ guard
    /\ pc = "wait"
    /\ Len(chan) >= 1

\* this step takes an event from the channel
ReceivesEvent ==
    /\ pc = "recv"
    /\ chan # << >>
    /\ chan' = Tail(chan)
    /\ Head(chan).tag = "event"

\* the event at the head of the channel is one the loop accepts now
Accepted ==
    /\ Head(chan).paths # << >>
    /\ ~ShouldIgnorePath(Head(chan).paths[1], config.ignore_pattern)
    /\ Head(chan).kind \in {"create", "modify", "remove"}
    /\ clock - Unwrap(last_event_time) > config.delay

\* C15: once the loop runs, lastTriggerTime is written only by the step that
\* receives an accepted event, which sets it to the time of the check; an event
\* without paths, an ignored one, one of another kind and one rejected by the
\* debounce each start no restart and leave lastTriggerTime, the child handle
\* and the processes as they were.
C15_EventFrame ==
    /\ [][ (LoopEntered /\ last_event_time' # last_event_time) =>
             /\ ReceivesEvent
             /\ Accepted
             /\ last_event_time' = Some(clock) ]_vars
    /\ [][ (ReceivesEvent /\ ~Accepted) =>
             /\ pc' = "recv"
             /\ UNCHANGED << last_event_time, child, procs, call, wake, guard >> ]_vars

\* an event has been rejected by the debounce check while a child is running
C15_Witness ==
    /\ pc = "recv"
    /\ out = Log("Debug", "Ignoring event due to debounce")
    /\ IsSome(child)
    /\ procs[Unwrap(child)].st = "running"
    /\ chan = << >>

\* the lines of a step report an error
ReportsError(lines) == \E i \in DOMAIN lines : lines[i].level = "Error"

\* this step is a kill that failed: the child it was sent to is still running
KillFails == pc = "kill" /\ pc' = "wait" /\ procs'[call.taken].st = "running"

\* this step is a spawn that failed
SpawnFails == pc = "spawn" /\ pc' # pc /\ Len(procs') = Len(procs)

\* this step compiles an ignore pattern and the compilation fails
CompileFails ==
    /\ ReceivesPath
    /\ IsSome(config.ignore_pattern)
    /\ ~RegexNew(Unwrap(config.ignore_pattern)).ok

\* C16: a failed spawn is returned to the caller of restart; a failed kill and a
\* failed compilation of the ignore pattern, which have no caller to be
\* returned to (stop and should_ignore_path return no Result), are reported by
\* a log line of the step.
C16_NoSilentError ==
    [][ /\ SpawnFails => (IsSome(ret') /\ ~Unwrap(ret').ok)
        /\ KillFails => ReportsError(out')
        /\ CompileFails => ReportsError(out') ]_vars

\* the run has come to the end of the modelled time or of the modelled spawns
Horizon ==
    \/ pc = "sleep" /\ wake > MaxTime
    \/ pc = "spawn" /\ Len(procs) >= MaxSpawns

\* C17: a restart leaves the wait on the old child only by the return of wait,
\* and until then no item is taken from the channel and no process is spawned;
\* when every kill, wait and spawn returns, every item that is on the channel
\* of a program whose loop has been entered is eventually taken.
C17_NoTimeout ==
    /\ [][ pc = "wait" =>
             /\ Len(chan') >= Len(chan)
             /\ Len(procs') = Len(procs)
             /\ pc' # pc => procs'[call.taken].st = "reaped" ]_vars
    /\ \A n \in 1..MaxEvents :
          (LoopEntered /\ delivered >= n) ~> (Consumed >= n \/ Horizon)

\* the kill failed and the restart has been waiting for the old child up to the
\* end of the modelled time, with an item still on the channel
C17_Witness ==
    /\ pc = "wait"
    /\ procs[call.taken].st = "running"
    /\ clock = MaxTime
    /\ Len(chan) = MaxEvents - 1

\* C18: when handle_change returns, with success or with an error, at least the
\* delay has passed since lastTriggerTime, and so it is at every later receive;
\* after a first trigger the debounce rejects a create/modify/remove event only
\* on the boundary lastTriggerTime + delay, which the return of handle_change
\* has already reached: an event checked any positive time after the return is
\* accepted.
C18_SleepCoversDelay ==
    /\ []( (pc = "returned" /\ call.caller = "loop")
             => clock - Unwrap(last_event_time) >= config.delay )
    /\ []( (pc = "recv" /\ IsSome(burst))
             => clock - Unwrap(last_event_time) >= config.delay )
    /\ [][ (ChecksDebounce /\ IsSome(burst)) =>
             IF clock > Unwrap(last_event_time) + config.delay
             THEN pc' = "sleep"
             ELSE clock = Unwrap(last_event_time) + config.delay ]_vars

\* handle_change has returned; one unit of time after lastTriggerTime + delay,
\* with a positive delay, a modify event that the filter lets through is next
C18_Witness ==
    /\ pc = "recv"
    /\ IsSome(burst)
    /\ config.delay > 0
    /\ clock = Unwrap(last_event_time) + config.delay + 1
    /\ chan # << >>
    /\ Head(chan).tag = "event"
    /\ Head(chan).kind = "modify"
    /\ Head(chan).paths = << File_src >>

\* C19: the successful return of the initial launch sets lastTriggerTime to the
\* time at which the loop starts, and until a first trigger is accepted it keeps
\* that value; a create/modify/remove event checked no later than the delay
\* after the loop started is rejected, starts no restart and changes nothing of
\* the supervisor, although no trigger was accepted before it.
C19_InitialDebounceWindow ==
    /\ [][ (pc = "returned" /\ pc' # pc /\ call.caller = "init" /\ Unwrap(ret).ok)
             => (pc' = "recv" /\ last_event_time' = Some(clock)) ]_vars
    /\ [][ (LoopEntered /\ burst' = None)
             => last_event_time' = last_event_time ]_vars
    /\ [][ (ChecksDebounce /\ burst = None
              /\ clock - Unwrap(last_event_time) <= config.delay) =>
             /\ pc' = "recv"
             /\ burst' = None
             /\ UNCHANGED << last_event_time, child, procs, call >> ]_vars

\* no trigger has been accepted yet, and an event checked a positive time after
\* the loop started, on the boundary of the delay, has been rejected
C19_Witness ==
    /\ pc = "recv"
    /\ burst = None
    /\ out = Log("Debug", "Ignoring event due to debounce")
    /\ clock > Unwrap(last_event_time)
    /\ \A p \in DOMAIN procs : procs[p].st = "running"

\* C20: the step that ends the loop on a closed channel calls neither stop nor
\* restart and leaves the handle and every process as they are, and the program
\* does nothing after it: a child whose handle is stored when the loop ends is
\* still running, not killed and not reaped, when the program has ended.
C20_ChildOutlivesLoop ==
    /\ [][ (pc = "recv" /\ pc' = "exit") =>
             /\ closed
             /\ call' = NoCall
             /\ UNCHANGED << child, procs >> ]_vars
    /\ [][ pc = "exit" => UNCHANGED << child, procs >> ]_vars
    /\ []( (pc = "exit" /\ LoopEntered /\ IsSome(child))
             => procs[Unwrap(child)].st = "running" )

\* the loop has ended on the closed channel with the handle of a running child
\* stored
C20_Witness ==
    /\ pc = "exit"
    /\ exit = Some(0)
    /\ closed
    /\ IsSome(child)
    /\ procs[Unwrap(child)].st = "running"

====
